---- MODULE Spec2Model ----
(***************************************************************************)
(* Model of stalker.models.shot.Shot: the cut range (cut_in, cut_duration, *)
(* cut_out) kept consistent by _update_cut_info, and the rule that two     *)
(* shots of one Sequence never share a code.                               *)
(*                                                                         *)
(* Model of stalker.models.user.User: the validators of email, first_name, *)
(* password, department and the collections, and _format_name.             *)
(*                                                                         *)
(* The specifications share the variables and the operators:               *)
(*   SpecReconcile   _update_cut_info as a function of its three           *)
(*                   arguments, applied once and then to its own result;   *)
(*   Spec            the life of one Shot: construction, the cut setters   *)
(*                   and getters, the on-load hook;                        *)
(*   SpecSeq         several Shots constructed in, and moved between,      *)
(*                   Sequences;                                            *)
(*   SpecUser        assignments to a User's email, first_name and         *)
(*                   password, and check_password;                         *)
(*   SpecUserRefs    assignments to a User's department and additions to   *)
(*                   its collections;                                      *)
(*   SpecFormatName  User._format_name as a function of its argument.      *)
(***************************************************************************)
EXTENDS Integers, FiniteSets, Sequences

VARIABLES built, code, sequence, cut, last, pc, user, ucall

vars == <<built, code, sequence, cut, last, pc, user, ucall>>

(* ------------------------------ bounds --------------------------------- *)
MaxCut == 3
MaxNeg == 1
MaxLen == 3
NumObjs == 1
NumShots == 2
NumSeqs == 2
NumCodes == 2

Shots == 1..NumShots
Seqs == 1..NumSeqs
Codes == 1..NumCodes

(* ------------------------------ values --------------------------------- *)
(* A Python value handed to a cut attribute: an int, None, or anything     *)
(* that is not an int (a str, a float).                                    *)
IntV(n) == [tag |-> "int", val |-> n]
None == [tag |-> "none", val |-> 0]
NotInt == [tag |-> "str", val |-> 0]
TypeError == [tag |-> "TypeError", val |-> 0]

CutInts == {IntV(n) : n \in (0 - MaxNeg)..MaxCut}
IntOrNone == CutInts \cup {None}
AnyValue == IntOrNone \cup {NotInt}

IsInt(v) == v.tag = "int"
IsRaise(v) == v.tag = "TypeError"

(* sequence 0 is None (not a Sequence instance); code 0 is the code of an  *)
(* instance whose base initialiser has not run yet                         *)
NoSeq == 0
NoCode == 0

(* the cut fields of an instance before anything was stored in them *)
Blank == [cut_in |-> None, cut_duration |-> None, cut_out |-> None]

(* ------------------------- Shot._validate_cut_* ------------------------- *)
validate_cut_duration(cut_duration_in) ==
    IF cut_duration_in # None /\ ~IsInt(cut_duration_in)
    THEN TypeError
    ELSE cut_duration_in

validate_cut_in(cut_in_in) ==
    IF cut_in_in # None /\ ~IsInt(cut_in_in)
    THEN TypeError
    ELSE cut_in_in

validate_cut_out_unchecked(cut_out_in) == cut_out_in

validate_cut_out(cut_out_in) ==
    IF cut_out_in # None /\ ~IsInt(cut_out_in)
    THEN TypeError
    ELSE cut_out_in

(* ------------------------ Shot._update_cut_info ------------------------- *)
(* t is the triple of stored fields; each step is one statement            *)
default_cut_in(t) ==
    IF t.cut_in = None THEN [t EXCEPT !.cut_in = IntV(1)] ELSE t

collapse_flipped(t) ==
    IF t.cut_out # None /\ t.cut_in.val < t.cut_out.val
    THEN [t EXCEPT !.cut_duration = IntV(1)]
    ELSE t

collapse_on_equal(t) ==
    IF t.cut_out # None /\ t.cut_in.val >= t.cut_out.val
    THEN [t EXCEPT !.cut_duration = IntV(1)]
    ELSE t

collapse_on_conflict(t) ==
    IF t.cut_out # None /\ t.cut_in.val > t.cut_out.val
    THEN [t EXCEPT !.cut_duration = IntV(1)]
    ELSE t

default_cut_duration_allow_zero(t) ==
    IF t.cut_duration = None \/ t.cut_duration.val < 0
    THEN [t EXCEPT !.cut_duration = IntV(1)]
    ELSE t

default_cut_duration_100(t) ==
    IF t.cut_duration = None \/ t.cut_duration.val <= 0
    THEN [t EXCEPT !.cut_duration = IntV(100)]
    ELSE t

default_cut_duration(t) ==
    IF t.cut_duration = None \/ t.cut_duration.val <= 0
    THEN [t EXCEPT !.cut_duration = IntV(1)]
    ELSE t

recompute_cut_out_plus_duration(t) ==
    [t EXCEPT !.cut_out = IntV(t.cut_in.val + t.cut_duration.val)]

recompute_cut_out_keep_given(t) ==
    IF t.cut_out # None
    THEN t
    ELSE [t EXCEPT !.cut_out = IntV(t.cut_in.val + t.cut_duration.val - 1)]

recompute_cut_out_skipped(t) == t

recompute_cut_out(t) ==
    [t EXCEPT !.cut_out = IntV(t.cut_in.val + t.cut_duration.val - 1)]

(* The result: the fields as the call leaves them, and what it raised.     *)
(* The three validated assignments run in order, so a TypeError leaves the *)
(* assignments before it in place.                                         *)
update_cut_info(self, cut_in, cut_duration, cut_out) ==
    LET v1 == validate_cut_in(cut_in)
        t1 == [self EXCEPT !.cut_in = v1]
        v2 == validate_cut_duration(cut_duration)
        t2 == [t1 EXCEPT !.cut_duration = v2]
        v3 == validate_cut_out(cut_out)
        t3 == [t2 EXCEPT !.cut_out = v3]
    IN  IF IsRaise(v1) THEN [fields |-> self, raised |-> "TypeError"]
        ELSE IF IsRaise(v2) THEN [fields |-> t1, raised |-> "TypeError"]
        ELSE IF IsRaise(v3) THEN [fields |-> t2, raised |-> "TypeError"]
        ELSE [fields |-> recompute_cut_out(default_cut_duration(
                             collapse_on_conflict(default_cut_in(t3)))),
              raised |-> "none"]

(* ------------------------ Shot._validate_sequence ----------------------- *)
(* sequence.shots: the shots whose _sequence is q (the two sides of the    *)
(* relationship are kept in step by back_populates).  built[t] is "no"    *)
(* before construction, "yes" for a settled shot, and "partial" for one    *)
(* whose constructor raised after the sequence was assigned.               *)
shots_of(q) == {t \in Shots : built[t] # "no" /\ sequence[t] = q}

validate_sequence_no_scan(self_code, q) ==
    IF q \notin Seqs THEN "TypeError" ELSE "none"

validate_sequence(self_code, q) ==
    IF q \notin Seqs THEN "TypeError"
    ELSE IF \E t \in shots_of(q) : self_code = code[t] THEN "ValueError"
    ELSE "none"

(* ------------------------------ history -------------------------------- *)
(* last: the operation that led to this state: its name, the shot, the     *)
(* arguments its _update_cut_info call received (a, d, o), the sequence    *)
(* and code it was given, what it raised, and the shot's cut fields (pre)  *)
(* and sequence (pq) before it.                                            *)
Record(op, s, a, d, o, q, c, raised, pre, pq) ==
    [op |-> op, shot |-> s, a |-> a, d |-> d, o |-> o, q |-> q, c |-> c,
     raised |-> raised, pre |-> pre, pq |-> pq]

NoOp ==
    Record("none", 0, None, None, None, NoSeq, NoCode, "none", Blank, NoSeq)

(* ------------------------------ actions -------------------------------- *)
(* Shot.__init__(sequence=q, cut_in, cut_out, cut_duration, code=c).       *)
(* The sequence is validated before the base initialiser has set the code  *)
(* and again, by the setter, after it.  Assigning the sequence puts the    *)
(* shot in sequence.shots, and the raw cut arguments are stored before     *)
(* _update_cut_info validates them: a TypeError there leaves a partly      *)
(* initialised shot behind in the sequence.                                *)
Construct(s, q, c, cut_in, cut_duration, cut_out) ==
    /\ pc = "run"
    /\ built[s] = "no"
    /\ LET first == validate_sequence(NoCode, q)
           second == validate_sequence(c, q)
           raw == [cut_in |-> cut_in, cut_duration |-> cut_duration,
                   cut_out |-> cut_out]
           r == update_cut_info(raw, cut_in, cut_duration, cut_out)
           raised == IF first # "none" THEN first
                     ELSE IF second # "none" THEN second
                     ELSE r.raised
       IN  /\ last' = Record("init", s, cut_in, cut_duration, cut_out, q, c,
                             raised, Blank, NoSeq)
           /\ IF first # "none" \/ second # "none"
              THEN UNCHANGED <<built, code, sequence, cut>>
              ELSE /\ built' = [built EXCEPT
                                   ![s] = IF r.raised = "none" THEN "yes"
                                          ELSE "partial"]
                   /\ code' = [code EXCEPT ![s] = c]
                   /\ sequence' = [sequence EXCEPT ![s] = q]
                   /\ cut' = [cut EXCEPT ![s] = r.fields]
    /\ UNCHANGED <<pc, user, ucall>>

(* Shot.__init_on_load__: _cut_in and _cut_out come from their columns     *)
InitOnLoad(s) ==
    /\ pc = "run"
    /\ built[s] = "yes"
    /\ LET loaded == [cut[s] EXCEPT !.cut_duration = None]
           r == update_cut_info(loaded, loaded.cut_in, loaded.cut_duration,
                                loaded.cut_out)
       IN  /\ cut' = [cut EXCEPT ![s] = r.fields]
           /\ last' = Record("init_on_load", s, loaded.cut_in,
                             loaded.cut_duration, loaded.cut_out,
                             sequence[s], code[s], r.raised, cut[s],
                             sequence[s])
    /\ UNCHANGED <<built, code, sequence, pc, user, ucall>>

CutSetter(op, s, a, d, o) ==
    /\ pc = "run"
    /\ built[s] = "yes"
    /\ LET r == update_cut_info(cut[s], a, d, o)
       IN  /\ cut' = [cut EXCEPT ![s] = r.fields]
           /\ last' = Record(op, s, a, d, o, sequence[s], code[s], r.raised,
                             cut[s], sequence[s])
    /\ UNCHANGED <<built, code, sequence, pc, user, ucall>>

CutDurationSetter(s, cut_duration_in) ==
    CutSetter("cut_duration_setter", s, cut[s].cut_in, cut_duration_in,
              cut[s].cut_out)

CutInSetter_without_cut_out(s, cut_in_in) ==
    CutSetter("cut_in_setter", s, cut_in_in, cut[s].cut_duration, None)

CutInSetter(s, cut_in_in) ==
    CutSetter("cut_in_setter", s, cut_in_in, cut[s].cut_duration,
              cut[s].cut_out)

CutOutSetter(s, cut_out_in) ==
    CutSetter("cut_out_setter", s, cut[s].cut_in, cut[s].cut_duration,
              cut_out_in)

(* the getters: _cut_in_getter and _cut_duration_getter return the field;  *)
(* _cut_out_getter first runs _update_cut_info when _cut_out is None       *)
CutGetter(op, s, r) ==
    /\ pc = "run"
    /\ built[s] = "yes"
    /\ cut' = [cut EXCEPT ![s] = r.fields]
    /\ last' = Record(op, s, cut[s].cut_in, cut[s].cut_duration,
                      cut[s].cut_out, sequence[s], code[s], r.raised, cut[s],
                      sequence[s])
    /\ UNCHANGED <<built, code, sequence, pc, user, ucall>>

CutInGetter(s) ==
    CutGetter("cut_in_getter", s, [fields |-> cut[s], raised |-> "none"])

CutDurationGetter(s) ==
    CutGetter("cut_duration_getter", s,
              [fields |-> cut[s], raised |-> "none"])

CutOutGetter(s) ==
    CutGetter("cut_out_getter", s,
              IF cut[s].cut_out = None
              THEN update_cut_info(cut[s], cut[s].cut_in,
                                   cut[s].cut_duration, None)
              ELSE [fields |-> cut[s], raised |-> "none"])

SequenceSetter(s, q) ==
    /\ pc = "run"
    /\ built[s] = "yes"
    /\ LET raised == validate_sequence(code[s], q)
       IN  /\ sequence' = IF raised = "none"
                          THEN [sequence EXCEPT ![s] = q]
                          ELSE sequence
           /\ last' = Record("sequence_setter", s, None, None, None, q,
                             code[s], raised, cut[s], sequence[s])
    /\ UNCHANGED <<built, code, cut, pc, user, ucall>>

(* _update_cut_info called on its own, and then on its own result *)
Reconcile ==
    /\ pc = "start"
    /\ LET r == update_cut_info(cut[1], last.a, last.d, last.o)
       IN  /\ cut' = [cut EXCEPT ![1] = r.fields]
           /\ last' = [last EXCEPT !.op = "update_cut_info",
                                   !.raised = r.raised]
           /\ pc' = IF r.raised = "none" THEN "once" ELSE "raised"
    /\ UNCHANGED <<built, code, sequence, user, ucall>>

ReconcileAgain ==
    /\ pc = "once"
    /\ LET x == cut[1]
           r == update_cut_info(x, x.cut_in, x.cut_duration, x.cut_out)
       IN  /\ cut' = [cut EXCEPT ![1] = r.fields]
           /\ last' = [last EXCEPT !.op = "update_cut_info_again",
                                   !.raised = r.raised, !.pre = x]
           /\ pc' = "twice"
    /\ UNCHANGED <<built, code, sequence, user, ucall>>

(* ================================ User ================================= *)
(* A Python value handed to a text attribute: a str (its characters), None *)
(* or something that is neither (an int).                                  *)
Text(chars) == [tag |-> "str", chars |-> chars]
NoText == [tag |-> "none", chars |-> <<>>]
NotText == [tag |-> "int", chars |-> <<>>]

Strs(alphabet) == UNION {[1..n -> alphabet] : n \in 0..MaxLen}

Lowers == {"a", "b", "j"}
Uppers == {"A", "B", "J"}
Digits == {"1"}
Whitespace == {" ", "\t"}

ToUpper(c) ==
    CASE c = "a" -> "A" [] c = "b" -> "B" [] c = "j" -> "J" [] OTHER -> c

ToLower(c) ==
    CASE c = "A" -> "a" [] c = "B" -> "b" [] c = "J" -> "j" [] OTHER -> c

(* str.strip(): whitespace removed from both ends *)
RECURSIVE LStrip(_)
LStrip(chars) ==
    IF chars # <<>> /\ Head(chars) \in Whitespace
    THEN LStrip(Tail(chars))
    ELSE chars

RECURSIVE RStrip(_)
RStrip(chars) ==
    IF chars # <<>> /\ chars[Len(chars)] \in Whitespace
    THEN RStrip(SubSeq(chars, 1, Len(chars) - 1))
    ELSE chars

Strip(chars) == RStrip(LStrip(chars))

(* str.replace(c, ""): chars without every occurrence of c *)
RECURSIVE Without(_, _)
Without(chars, c) ==
    IF chars = <<>> THEN <<>>
    ELSE IF Head(chars) = c
         THEN Without(Tail(chars), c)
         ELSE <<Head(chars)>> \o Without(Tail(chars), c)

(* re.sub("[^...]+", "", chars): the characters of chars that are in the   *)
(* class keep, in order                                                    *)
RECURSIVE Keep(_, _)
Keep(chars, keep) ==
    IF chars = <<>> THEN <<>>
    ELSE IF Head(chars) \in keep
         THEN <<Head(chars)>> \o Keep(Tail(chars), keep)
         ELSE Keep(Tail(chars), keep)

(* str.title(): a letter is upper case after a non-letter (or at the       *)
(* start) and lower case after a letter                                    *)
Title(chars) ==
    [i \in 1..Len(chars) |->
        IF chars[i] \notin Lowers \cup Uppers THEN chars[i]
        ELSE IF i > 1 /\ chars[i - 1] \in Lowers \cup Uppers
             THEN ToLower(chars[i])
             ELSE ToUpper(chars[i])]

(* str.split("@") *)
RECURSIVE Split(_)
Split(chars) ==
    IF chars = <<>> THEN << <<>> >>
    ELSE LET rest == Split(Tail(chars))
         IN  IF Head(chars) = "@"
             THEN << <<>> >> \o rest
             ELSE << <<Head(chars)>> \o Head(rest) >> \o Tail(rest)

(* a validator's outcome: the value to store, or what it raised *)
Ok(v) == [value |-> v, raised |-> "none"]
Raise(kind) == [value |-> NoText, raised |-> kind]

(* ---------------------- User._validate_email(_format) ------------------- *)
validate_email_format_no_domain_check(email_in) ==
    LET splits == Split(email_in.chars)
        len_splits == Len(splits)
    IN  IF len_splits > 2 THEN Raise("ValueError")
        ELSE IF len_splits < 2 THEN Raise("ValueError")
        ELSE IF splits[1] = <<>> THEN Raise("ValueError")
        ELSE Ok(email_in)

validate_email_format(email_in) ==
    LET splits == Split(email_in.chars)
        len_splits == Len(splits)
    IN  IF len_splits > 2 THEN Raise("ValueError")
        ELSE IF len_splits < 2 THEN Raise("ValueError")
        ELSE IF splits[1] = <<>> THEN Raise("ValueError")
        ELSE IF splits[2] = <<>> THEN Raise("ValueError")
        ELSE Ok(email_in)

validate_email(email_in) ==
    IF email_in.tag # "str" THEN Raise("TypeError")
    ELSE validate_email_format(email_in)

(* ------------------------ User._validate_first_name --------------------- *)
validate_first_name(first_name_in) ==
    IF first_name_in = NoText THEN Raise("TypeError")
    ELSE IF first_name_in.tag # "str" THEN Raise("TypeError")
    ELSE IF first_name_in.chars = <<>> THEN Raise("ValueError")
    ELSE Ok(Text(Title(Strip(first_name_in.chars))))

(* ---------------------------- User._format_name ------------------------- *)
(* the class [^\(a-zA-Z0-9)] of the first re.sub: what it leaves in place  *)
LegalChars == Lowers \cup Uppers \cup Digits \cup {"(", ")"}

remove_leading_digits(chars) ==
    IF \E i \in 1..Len(chars) : chars[i] \notin Digits
    THEN LET first == CHOOSE i \in 1..Len(chars) :
                          /\ chars[i] \notin Digits
                          /\ \A j \in 1..(i - 1) : chars[j] \in Digits
         IN  SubSeq(chars, first, Len(chars))
    ELSE <<>>

format_name(name) ==
    LET stripped == Strip(name)
        no_spaces == Without(stripped, " ")
        lowered == [i \in 1..Len(no_spaces) |-> ToLower(no_spaces[i])]
        legal == Keep(lowered, LegalChars)
    IN  remove_leading_digits(legal)

(* ------------------- User._validate_password, check_password ------------ *)
(* stalker.ext.auth: set_password gives an opaque value made from the raw  *)
(* password, check_password tells whether a stored value was made from it  *)
set_password(raw_password) == [tag |-> "hash", chars |-> raw_password.chars]

auth_check_password(raw_password, stored) ==
    stored = set_password(raw_password)

validate_password_unhashed(password_in) ==
    IF password_in = NoText THEN Raise("TypeError") ELSE Ok(password_in)

validate_password(password_in) ==
    IF password_in = NoText THEN Raise("TypeError")
    ELSE Ok(set_password(password_in))

check_password(self, raw_password) ==
    auth_check_password(raw_password, self.password)

(* ----------------- User._validate_department and collections ------------ *)
(* an object: its class and which instance of the class it is *)
Classes == {"Department", "PermissionGroup", "Project", "Sequence", "Task",
            "User"}
Objects == [cls : Classes, id : 1..NumObjs]
NoObject == [cls |-> "NoneType", id |-> 0]

validate_department(department) ==
    IF department # NoObject /\ department.cls # "Department"
    THEN "TypeError" ELSE "none"

validate_permission_groups(permission_group) ==
    IF permission_group.cls # "PermissionGroup" THEN "TypeError" ELSE "none"

validate_projects_lead(project) ==
    IF project.cls # "Project" THEN "TypeError" ELSE "none"

validate_sequences_lead(seq) ==
    IF seq.cls # "Sequence" THEN "TypeError" ELSE "none"

validate_tasks_any(task) == "none"

validate_tasks(task) ==
    IF task.cls # "Task" THEN "TypeError" ELSE "none"

(* ------------------------------ User state ------------------------------ *)
(* ucall: the call last made on the user: the attribute or method, its     *)
(* argument, what it raised, the user before it, and what it returned      *)
Call(op, arg, raised, pre, out) ==
    [op |-> op, arg |-> arg, raised |-> raised, pre |-> pre, out |-> out]

(* User(email="a@a", first_name="j", password="p"): the attributes as the  *)
(* validators stored them, no department and empty collections             *)
UserFields ==
    /\ user = [email |-> validate_email(Text(<<"a", "@", "a">>)).value,
               first_name |-> validate_first_name(Text(<<"j">>)).value,
               password |-> validate_password(Text(<<"p">>)).value,
               department |-> NoObject,
               permission_groups |-> {},
               projects_lead |-> {},
               sequences_lead |-> {},
               tasks |-> {}]

UserConstructed ==
    /\ UserFields
    /\ ucall = Call("init", NoText, "none", {}, NoText)

ShotUnchanged == UNCHANGED <<built, code, sequence, cut, last, pc>>

(* an attribute assignment: the validator runs and its value is stored *)
SetEmail(v) ==
    /\ LET r == validate_email(v)
       IN  /\ user' = IF r.raised = "none"
                      THEN [user EXCEPT !.email = r.value] ELSE user
           /\ ucall' = Call("email", v, r.raised, user, NoText)
    /\ ShotUnchanged

SetFirstName(v) ==
    /\ LET r == validate_first_name(v)
       IN  /\ user' = IF r.raised = "none"
                      THEN [user EXCEPT !.first_name = r.value] ELSE user
           /\ ucall' = Call("first_name", v, r.raised, user, NoText)
    /\ ShotUnchanged

SetPassword(v) ==
    /\ LET r == validate_password(v)
       IN  /\ user' = IF r.raised = "none"
                      THEN [user EXCEPT !.password = r.value] ELSE user
           /\ ucall' = Call("password", v, r.raised, user, NoText)
    /\ ShotUnchanged

CheckPassword(v) ==
    /\ user' = user
    /\ ucall' = Call("check_password", v, "none", user,
                     check_password(user, v))
    /\ ShotUnchanged

EmailTexts == {Text(c) : c \in Strs({"a", "@"})}
FirstNameTexts == {Text(c) : c \in Strs({"j", "J", " "})}
PasswordTexts == {Text(c) : c \in Strs({"p"})}

(* User._format_name(name), on its own *)
FormatName ==
    /\ pc = "start"
    /\ pc' = "done"
    /\ ucall' = Call("format_name", ucall.arg, "none", user,
                     Text(format_name(ucall.arg.chars)))
    /\ UNCHANGED <<built, code, sequence, cut, last, user>>

(* user.department = x, and x appended to one of the collections: the      *)
(* validator runs before x is stored                                       *)
SetDepartment(x) ==
    /\ LET raised == validate_department(x)
       IN  /\ user' = IF raised = "none"
                      THEN [user EXCEPT !.department = x] ELSE user
           /\ ucall' = Call("department", x, raised, user, NoText)
    /\ ShotUnchanged

AppendPermissionGroups(x) ==
    /\ LET raised == validate_permission_groups(x)
       IN  /\ user' = IF raised = "none"
                      THEN [user EXCEPT !.permission_groups = @ \cup {x}]
                      ELSE user
           /\ ucall' = Call("permission_groups", x, raised, user, NoText)
    /\ ShotUnchanged

AppendProjectsLead(x) ==
    /\ LET raised == validate_projects_lead(x)
       IN  /\ user' = IF raised = "none"
                      THEN [user EXCEPT !.projects_lead = @ \cup {x}]
                      ELSE user
           /\ ucall' = Call("projects_lead", x, raised, user, NoText)
    /\ ShotUnchanged

AppendSequencesLead(x) ==
    /\ LET raised == validate_sequences_lead(x)
       IN  /\ user' = IF raised = "none"
                      THEN [user EXCEPT !.sequences_lead = @ \cup {x}]
                      ELSE user
           /\ ucall' = Call("sequences_lead", x, raised, user, NoText)
    /\ ShotUnchanged

AppendTasks(x) ==
    /\ LET raised == validate_tasks(x)
       IN  /\ user' = IF raised = "none"
                      THEN [user EXCEPT !.tasks = @ \cup {x}]
                      ELSE user
           /\ ucall' = Call("tasks", x, raised, user, NoText)
    /\ ShotUnchanged

NameTexts == {Text(c) : c \in Strs({"a", "B", "1", " ", "\t", "_", "("})}

NextUser ==
    \/ \E v \in EmailTexts \cup {NoText, NotText} : SetEmail(v)
    \/ \E v \in FirstNameTexts \cup {NoText, NotText} : SetFirstName(v)
    \/ \E v \in PasswordTexts \cup {NoText} : SetPassword(v)
    \/ \E v \in PasswordTexts : CheckPassword(v)

(* --------------------------- specifications ---------------------------- *)
NothingBuilt ==
    /\ built = [s \in Shots |-> "no"]
    /\ code = [s \in Shots |-> NoCode]
    /\ sequence = [s \in Shots |-> NoSeq]
    /\ cut = [s \in Shots |-> Blank]

Init ==
    /\ NothingBuilt
    /\ last = NoOp
    /\ pc = "run"
    /\ UserConstructed

(* one Shot, of code 1 in sequence 1, and every value for its cut fields *)
Next ==
    \/ \E a \in AnyValue, d \in AnyValue, o \in AnyValue :
           Construct(1, 1, 1, a, d, o)
    \/ InitOnLoad(1)
    \/ \E v \in AnyValue : CutInSetter(1, v)
    \/ \E v \in AnyValue : CutDurationSetter(1, v)
    \/ \E v \in AnyValue : CutOutSetter(1, v)
    \/ CutInGetter(1)
    \/ CutDurationGetter(1)
    \/ CutOutGetter(1)

Spec == Init /\ [][Next]_vars

(* several Shots, any sequence and code; cut_in is its default or not an *)
(* int, the other cut arguments their defaults                           *)
NextSeq ==
    \/ \E s \in Shots, q \in Seqs \cup {NoSeq}, c \in Codes :
           \E a \in {IntV(1), NotInt} : Construct(s, q, c, a, None, None)
    \/ \E s \in Shots, q \in Seqs \cup {NoSeq} : SequenceSetter(s, q)

SpecSeq == Init /\ [][NextSeq]_vars

InitReconcile ==
    /\ NothingBuilt
    /\ \E a \in AnyValue, d \in AnyValue, o \in AnyValue :
           last = Record("pending", 1, a, d, o, NoSeq, NoCode, "none", Blank,
                         NoSeq)
    /\ pc = "start"
    /\ UserConstructed

NextReconcile == Reconcile \/ ReconcileAgain

SpecReconcile == InitReconcile /\ [][NextReconcile]_vars

SpecUser == Init /\ [][NextUser]_vars

NextUserRefs ==
    \/ \E x \in Objects \cup {NoObject} : SetDepartment(x)
    \/ \E x \in Objects \cup {NoObject} : AppendPermissionGroups(x)
    \/ \E x \in Objects \cup {NoObject} : AppendProjectsLead(x)
    \/ \E x \in Objects \cup {NoObject} : AppendSequencesLead(x)
    \/ \E x \in Objects \cup {NoObject} : AppendTasks(x)

SpecUserRefs == Init /\ [][NextUserRefs]_vars

InitFormatName ==
    /\ NothingBuilt
    /\ last = NoOp
    /\ pc = "start"
    /\ UserFields
    /\ \E name \in NameTexts :
           ucall = Call("pending", name, "none", {}, NoText)

SpecFormatName == InitFormatName /\ [][FormatName]_vars

(* ------------------------------ claims --------------------------------- *)
Settled(s) == built[s] = "yes"

AllInt(t) == IsInt(t.cut_in) /\ IsInt(t.cut_duration) /\ IsInt(t.cut_out)

CutSetterOps == {"cut_in_setter", "cut_duration_setter", "cut_out_setter"}

(* the value a cut setter was called with *)
Assigned ==
    IF last.op = "cut_in_setter" THEN last.a
    ELSE IF last.op = "cut_duration_setter" THEN last.d
    ELSE last.o

C2_PriorityHonoured ==
    (pc = "once" /\ IsInt(last.a) /\ IsInt(last.d) /\ last.d.val >= 1)
        => /\ cut[1].cut_in = last.a
           /\ cut[1].cut_duration = last.d

C4_Idempotent ==
    pc = "twice" => (last.raised = "none" /\ cut[1] = last.pre)

(* C4 witness: the second application, on a triple whose cut_out is above  *)
(* its cut_in.                                                              *)
C4_Witness ==
    /\ pc = "twice"
    /\ last.pre.cut_out.val > last.pre.cut_in.val

C7_CutOutSetsDuration ==
    (last.op = "cut_out_setter" /\ IsInt(last.o)
         /\ last.o.val >= last.pre.cut_in.val)
        => /\ cut[last.shot].cut_out = last.o
           /\ cut[last.shot].cut_duration
                  = IntV(last.o.val - last.pre.cut_in.val + 1)

(* C8: the on-load hook, given the stored cut_in and cut_out of a settled  *)
(* shot, gives back the triple the shot had.                               *)
C8_OnLoadRecovers ==
    last.op = "init_on_load" => cut[last.shot] = last.pre

(* C9: assigning a value that is neither an integer nor null to cut_in,    *)
(* cut_duration or cut_out of a settled shot raises TypeError and leaves   *)
(* the three stored fields as they were.                                   *)
C9_BadValueRejected ==
    (last.op \in CutSetterOps /\ Assigned = NotInt)
        => /\ last.raised = "TypeError"
           /\ cut[last.shot] = last.pre

(* C9 witness: cut_in of a settled shot of duration above 1 assigned a     *)
(* non-integer.                                                            *)
C9_Witness ==
    /\ last.op = "cut_in_setter"
    /\ last.a = NotInt
    /\ last.pre.cut_duration.val > 1

(* C10: no two shots of one Sequence share a code; a construction in, or   *)
(* an assignment of, a Sequence holding another shot of the same code      *)
(* raises ValueError and does not put the shot in it; one into a Sequence  *)
(* holding no shot of that code puts the shot in it.                       *)
C10_UniqueCodeInSequence ==
    /\ \A s \in Shots, t \in Shots :
           (s # t /\ built[s] # "no" /\ built[t] # "no"
                /\ sequence[s] = sequence[t])
               => code[s] # code[t]
    /\ last.op \in {"init", "sequence_setter"} =>
           LET others == {t \in shots_of(last.q) \ {last.shot} :
                              code[t] = last.c}
           IN  /\ others # {}
                      => /\ last.raised = "ValueError"
                         /\ last.shot \notin shots_of(last.q)
               /\ (others = {} /\ last.q \in Seqs /\ last.pq # last.q)
                      => /\ last.raised # "ValueError"
                         /\ last.shot \in shots_of(last.q)

(* C10 witness: two settled shots of one code in different Sequences, the  *)
(* assignment of one to the other's Sequence having raised ValueError.     *)
C10_Witness ==
    /\ last.op = "sequence_setter"
    /\ last.raised = "ValueError"
    /\ \E t \in Shots \ {last.shot} :
           /\ Settled(t) /\ Settled(last.shot)
           /\ code[t] = code[last.shot]
           /\ sequence[t] = last.q
           /\ sequence[last.shot] # last.q

C18_SelfAssignmentAccepted ==
    (last.op = "sequence_setter" /\ last.q \in Seqs /\ last.q = last.pq
         /\ ~\E t \in shots_of(last.q) \ {last.shot} : code[t] = last.c)
        => /\ last.raised = "none"
           /\ sequence[last.shot] = last.pq

(* C19: the stored cut_out of a settled shot is never None, and a read of  *)
(* cut_in, cut_duration or cut_out leaves the three fields as they were.   *)
C19_ReadsChangeNothing ==
    /\ \A s \in Shots : Settled(s) => cut[s].cut_out # None
    /\ last.op \in {"cut_in_getter", "cut_duration_getter", "cut_out_getter"}
           => /\ last.raised = "none"
              /\ cut[last.shot] = last.pre

(* C19 witness: cut_out read on a shot constructed without a cut_out.      *)
C19_Witness ==
    /\ last.op = "cut_out_getter"
    /\ Settled(last.shot)
    /\ cut[last.shot].cut_duration.val > 1

(* C11: User.email stores a text unchanged when it has exactly one "@"     *)
(* with something before and something after it, raises ValueError for any *)
(* other text and TypeError for a value that is not a text; a rejected     *)
(* value leaves the user as it was.                                        *)
WellFormedEmail(chars) ==
    /\ Cardinality({i \in 1..Len(chars) : chars[i] = "@"}) = 1
    /\ chars[1] # "@"
    /\ chars[Len(chars)] # "@"

C11_EmailAccepted ==
    ucall.op = "email" =>
        IF ucall.arg.tag # "str"
        THEN ucall.raised = "TypeError" /\ user = ucall.pre
        ELSE IF WellFormedEmail(ucall.arg.chars)
        THEN ucall.raised = "none" /\ user.email = ucall.arg
        ELSE ucall.raised = "ValueError" /\ user = ucall.pre

(* C11 witness: a text with two "@" rejected on a user whose email is      *)
(* another text.                                                           *)
C11_Witness ==
    /\ ucall.op = "email"
    /\ ucall.arg.tag = "str"
    /\ Cardinality({i \in 1..Len(ucall.arg.chars) :
                        ucall.arg.chars[i] = "@"}) = 2
    /\ ucall.raised = "ValueError"
    /\ user.email.chars = <<"a", "@", "a">>

(* C12: the result of _format_name holds only lower case letters and       *)
(* digits, no whitespace, and does not begin with a digit.                 *)
C12_NameAlphanumeric ==
    ucall.op = "format_name" =>
        /\ \A i \in 1..Len(ucall.out.chars) :
               ucall.out.chars[i] \in Lowers \cup Digits
        /\ ucall.out.chars # <<>> => ucall.out.chars[1] \notin Digits

(* C13: an assignment to User.first_name raises TypeError for null or a    *)
(* non-text and ValueError for the empty text, and otherwise stores the    *)
(* text stripped and title-cased; the stored first_name is never empty.    *)
C13_FirstNameNeverEmpty ==
    /\ user.first_name.chars # <<>>
    /\ ucall.op = "first_name" =>
           IF ucall.arg.tag # "str" THEN ucall.raised = "TypeError"
           ELSE IF ucall.arg.chars = <<>> THEN ucall.raised = "ValueError"
           ELSE /\ ucall.raised = "none"
                /\ user.first_name = Text(Title(Strip(ucall.arg.chars)))

(* C14: the stored password is what set_password made of the raw text,     *)
(* never the raw text; a null password raises TypeError and leaves the     *)
(* stored one; check_password of the text just assigned is true.           *)
C14_PasswordHashed ==
    /\ user.password.tag = "hash"
    /\ ucall.op = "password" =>
           IF ucall.arg = NoText
           THEN ucall.raised = "TypeError" /\ user = ucall.pre
           ELSE /\ ucall.raised = "none"
                /\ user.password = set_password(ucall.arg)
                /\ user.password # ucall.arg
                /\ check_password(user, ucall.arg)
    /\ (ucall.op = "check_password" /\ ucall.out)
           => user.password = set_password(ucall.arg)

(* C14 witness: a password other than the one the user had assigned.       *)
C14_Witness ==
    /\ ucall.op = "password"
    /\ ucall.raised = "none"
    /\ ucall.pre.password # user.password

(* C15: department takes a Department or null, and each collection an      *)
(* instance of its own class; any other value raises TypeError and the     *)
(* user is left as it was, without that value.                             *)
RefClass ==
    [department |-> "Department", permission_groups |-> "PermissionGroup",
     projects_lead |-> "Project", sequences_lead |-> "Sequence",
     tasks |-> "Task"]

Holds(u, attr, x) ==
    IF attr = "department" THEN u.department = x
    ELSE IF attr = "permission_groups" THEN x \in u.permission_groups
    ELSE IF attr = "projects_lead" THEN x \in u.projects_lead
    ELSE IF attr = "sequences_lead" THEN x \in u.sequences_lead
    ELSE x \in u.tasks

C15_ReferencesTyped ==
    ucall.op \in DOMAIN RefClass =>
        IF \/ ucall.arg.cls = RefClass[ucall.op]
           \/ (ucall.op = "department" /\ ucall.arg = NoObject)
        THEN ucall.raised = "none" /\ Holds(user, ucall.op, ucall.arg)
        ELSE /\ ucall.raised = "TypeError"
             /\ user = ucall.pre
             /\ ~Holds(user, ucall.op, ucall.arg)

(* C15 witness: a Project offered to tasks, which already holds a Task.    *)
C15_Witness ==
    /\ ucall.op = "tasks"
    /\ ucall.arg.cls = "Project"
    /\ user.tasks # {}

====
